---- MODULE Spec2Model ----
(***************************************************************************)
(* Report lifecycle and progress ledger of the helpdesk backend            *)
(* (server/src/handlers/reports.ts, progress.ts, categories.ts, users.ts). *)
(*                                                                         *)
(* The handlers are async functions that issue their SQL statements one    *)
(* `await` at a time against a shared store, with no db.transaction():     *)
(* every statement is one atomic step, and the statements of concurrently  *)
(* served requests interleave.  Two sessions send requests, each one       *)
(* request at a time: "pelapor" (the reporter's screens: createReport,     *)
(* updateReport, deleteReport) and "admin" (updateReportStatus,            *)
(* addProgressNote, createReportProgress).  No procedure of the router     *)
(* authenticates, so a session sends any id as userId or adminId.  A       *)
(* session's record holds its call's arguments, its position (pc) and what *)
(* it read.  In Spec the accounts and categories are a fixed directory and  *)
(* the session "admin2" stays idle; SpecLedger starts from a created report *)
(* and runs two admin sessions against its ledger; SpecEdit is updateReport *)
(* over all editable columns; SpecTimeline is the two timeline queries over *)
(* timestamped entries; SpecCategory adds the handlers that deactivate a    *)
(* category and SpecDirectory those that deactivate an account; SpecQuery   *)
(* and SpecExport are the list queries and the CSV export over a fixed      *)
(* store of reports; SpecAccounts is the account store with login and the   *)
(* user-management handlers.                                               *)
(***************************************************************************)
EXTENDS Integers, Sequences, FiniteSets, TLC

\* ---------------------------------------------------------------- bounds
MaxClock == 4       \* rows written with a timestamp (now() or new Date())
MaxRows == 3        \* rows of report_progress in SpecTimeline

\* ------------------------------------------------------------ value sets
Slots == {"pelapor", "admin", "admin2"}
ReportIds == {1}                   \* ids the reports.id sequence hands out
ReportArgs == {1, 2}               \* ids a caller may send (2 matches no row)
Statuses == {"baru", "proses", "selesai"}
NoId == 0                          \* SQL NULL in an integer column
Omitted == -1                      \* an optional input field left undefined
NoText == "null"                   \* SQL NULL in a text column
CreationNote == "Laporan dibuat"
AdminNote == "catatan"

VARIABLES users, categories, reports, progress, nextReportId, nextProgressId,
          clock, proc, last, hist

vars == <<users, categories, reports, progress, nextReportId, nextProgressId,
          clock, proc, last, hist>>

tables == <<users, categories, reports, progress, nextReportId, nextProgressId, clock>>

\* ------------------------------------------------------------ the store
\* Timestamps: `clock` counts the rows written with a timestamp.  A reports
\* row keeps in updated_at how many times it was written (0 = as inserted),
\* which changes exactly when the column is set again; report_progress is
\* kept in insertion order, which is the order of its created_at column.

\* A row of report_progress.
ProgressRow(id, report_id, admin_id, status, notes) ==
  [id |-> id, report_id |-> report_id, admin_id |-> admin_id,
   status |-> status, notes |-> notes]

\* A row of reports as createReport inserts it.  Of the columns a reporter
\* may edit (npsn, school_name, category_id, issue_description, nisn) the row
\* keeps category_id, the one a handler reads back.
ReportRow(category_id, reporter_id) ==
  [category_id |-> category_id, status |-> "baru", reporter_id |-> reporter_id,
   updated_at |-> 0]

\* The category lookup without its is_active condition.
ExistingCategory(c) == c \in DOMAIN categories

\* select from categories where id = c and is_active = true
ActiveCategory(c) == c \in DOMAIN categories /\ categories[c].is_active

\* select from users where id = u and is_active = true
ActiveUser(u) == u \in DOMAIN users /\ users[u].is_active

\* The admin lookup without its role condition.
ActiveAccount(u) == u \in DOMAIN users /\ users[u].is_active

\* select from users where id = u and role = 'admin' and is_active = true
ActiveAdmin(u) ==
  u \in DOMAIN users /\ users[u].role = "admin" /\ users[u].is_active

\* The report lookup without its reporter_id condition.
AnyReport(r, u) == r \in DOMAIN reports

\* select from reports where id = r and reporter_id = u
OwnedReport(r, u) == r \in DOMAIN reports /\ reports[r].reporter_id = u

\* The status test that refuses nothing.
EditableAnyStatus(status) == status \in Statuses

\* report.status !== 'baru' is refused by updateReport and deleteReport
Editable(status) == status = "baru"

\* The rows of report_progress that reference report r, in insertion order.
EntriesOf(r) == SelectSeq(progress, LAMBDA e : e.report_id = r)

\* An insert that writes over the newest entry when there is one.
InsertProgressOverwriting(report_id, admin_id, status, notes) ==
  /\ clock < MaxClock
  /\ progress' = IF progress = <<>>
                   THEN <<ProgressRow(nextProgressId, report_id, admin_id, status, notes)>>
                   ELSE [progress EXCEPT ![Len(progress)] =
                           ProgressRow(nextProgressId, report_id, admin_id, status, notes)]
  /\ nextProgressId' = nextProgressId + 1
  /\ clock' = clock + 1

\* insert into report_progress ... (id from the sequence, created_at now())
InsertProgress(report_id, admin_id, status, notes) ==
  /\ clock < MaxClock
  /\ progress' = Append(progress,
                   ProgressRow(nextProgressId, report_id, admin_id, status, notes))
  /\ nextProgressId' = nextProgressId + 1
  /\ clock' = clock + 1

\* ------------------------------------------------------- request slots
Idle ==
  [op |-> "none", pc |-> "idle", rid |-> NoId, uid |-> NoId, cid |-> NoId,
   st |-> "baru", notes |-> NoText, ret |-> "none", applied |-> {}]

\* `last` is the response being sent in this state, if a call ended in the
\* step that led here: which call, with which arguments, whether it returned
\* (res = "ok", ret = what it returned) or threw (res = the message), and
\* which of its statements changed rows.
NoResponse ==
  [op |-> "none", rid |-> NoId, uid |-> NoId, cid |-> NoId, st |-> "baru",
   res |-> "none", ret |-> "none", applied |-> {}]

\* The call in slot p goes on to its next statement.
Goto(p, call, label) ==
  /\ proc' = [proc EXCEPT ![p] = [call EXCEPT !.pc = label]]
  /\ last' = NoResponse

\* The call in slot p ends and the slot is free again.
Finish(p, call, res, ret) ==
  /\ proc' = [proc EXCEPT ![p] = Idle]
  /\ last' = [op |-> call.op, rid |-> call.rid, uid |-> call.uid, cid |-> call.cid,
              st |-> call.st, res |-> res, ret |-> ret, applied |-> call.applied]

\* Session p has no request outstanding.
Free(p) == proc[p].pc = "idle"

Applied(call, stmt) == [call EXCEPT !.applied = @ \cup {stmt}]

\* ---------------------------------------------------------- createReport
\* Called with (category_id c, reporter_id u); first statement: the category
\* lookup.
CreateReportCall(p, c, u) ==
  /\ Free(p)
  /\ nextReportId \in ReportIds
  /\ LET call == [Idle EXCEPT !.op = "createReport", !.cid = c, !.uid = u] IN
       IF ActiveCategory(c)
         THEN Goto(p, call, "cr_reporter")
         ELSE Finish(p, call, "Category not found or inactive", "none")
  /\ UNCHANGED <<tables, hist>>

CreateReportReporter(p) ==
  /\ proc[p].pc = "cr_reporter"
  /\ IF ActiveUser(proc[p].uid)
       THEN Goto(p, proc[p], "cr_insert_report")
       ELSE Finish(p, proc[p], "Reporter not found or inactive", "none")
  /\ UNCHANGED <<tables, hist>>

CreateReportInsert(p) ==
  /\ proc[p].pc = "cr_insert_report"
  /\ nextReportId \in ReportIds
  /\ clock < MaxClock
  /\ reports' = reports @@
       (nextReportId :> ReportRow(proc[p].cid, proc[p].uid))
  /\ nextReportId' = nextReportId + 1
  /\ clock' = clock + 1
  /\ Goto(p, [Applied(proc[p], "insert report") EXCEPT !.rid = nextReportId, !.ret = "baru"],
          "cr_insert_progress")
  /\ UNCHANGED <<users, categories, progress, nextProgressId, hist>>

CreateReportProgressEntry(p) ==
  /\ proc[p].pc = "cr_insert_progress"
  /\ InsertProgress(proc[p].rid, NoId, "baru", CreationNote)
  /\ Finish(p, Applied(proc[p], "insert progress"), "ok", proc[p].ret)
  /\ hist' = [hist EXCEPT !.created = @ \cup {proc[p].rid}]
  /\ UNCHANGED <<users, categories, reports, nextReportId>>

\* ---------------------------------------------------------- updateReport
\* update reports set ... where id = r: the fields updateReport writes.
UpdatedRow(row, category_id) ==
  [row EXCEPT !.category_id = IF category_id # Omitted THEN category_id ELSE @,
              !.updated_at = @ + 1]

\* Called with (id r, userId u, category_id c or none); first statement: the
\* lookup of the caller's own report, then the test of the status it read.
UpdateReportCall(p, r, u, c) ==
  /\ Free(p)
  /\ LET call == [Idle EXCEPT !.op = "updateReport", !.rid = r, !.uid = u, !.cid = c] IN
       IF ~OwnedReport(r, u)
         THEN Finish(p, call, "Report not found or access denied", "none")
       ELSE IF ~Editable(reports[r].status)
         THEN Finish(p, call, "Can only update reports with status \"baru\"", "none")
       ELSE IF c # Omitted
         THEN Goto(p, call, "ur_category")
       ELSE Goto(p, call, "ur_update")
  /\ UNCHANGED <<tables, hist>>

UpdateReportCategory(p) ==
  /\ proc[p].pc = "ur_category"
  /\ IF ActiveCategory(proc[p].cid)
       THEN Goto(p, proc[p], "ur_update")
       ELSE Finish(p, proc[p], "Category not found or inactive", "none")
  /\ UNCHANGED <<tables, hist>>

\* The update matches the row by id alone; when the row is gone it matches
\* nothing and the handler returns result[0], undefined.
UpdateReportWrite(p) ==
  /\ proc[p].pc = "ur_update"
  /\ IF proc[p].rid \in DOMAIN reports
       THEN /\ clock < MaxClock
            /\ reports' = [reports EXCEPT ![proc[p].rid] =
                             UpdatedRow(@, proc[p].cid)]
            /\ clock' = clock + 1
            /\ Finish(p, Applied(proc[p], "update report"), "ok", reports[proc[p].rid].status)
       ELSE /\ UNCHANGED <<reports, clock>>
            /\ Finish(p, proc[p], "ok", "undefined")
  /\ UNCHANGED <<users, categories, progress, nextReportId, nextProgressId, hist>>

\* ---------------------------------------------------------- deleteReport
\* A deleteReport that answers false for a report it does not find.
DeleteReportCallReturningFalse(p, r, u) ==
  /\ Free(p)
  /\ LET call == [Idle EXCEPT !.op = "deleteReport", !.rid = r, !.uid = u] IN
       IF r \notin DOMAIN reports
         THEN Finish(p, call, "ok", "false")
       ELSE IF reports[r].reporter_id # u
         THEN Finish(p, call, "Report not found or access denied", "none")
       ELSE IF reports[r].status # "baru"
         THEN Finish(p, call, "Can only delete reports with status \"baru\"", "none")
       ELSE Goto(p, call, "dr_delete_progress")
  /\ UNCHANGED <<tables, hist>>

DeleteReportCall(p, r, u) ==
  /\ Free(p)
  /\ LET call == [Idle EXCEPT !.op = "deleteReport", !.rid = r, !.uid = u] IN
       IF ~OwnedReport(r, u)
         THEN Finish(p, call, "Report not found or access denied", "none")
       ELSE IF ~Editable(reports[r].status)
         THEN Finish(p, call, "Can only delete reports with status \"baru\"", "none")
       ELSE Goto(p, call, "dr_delete_progress")
  /\ UNCHANGED <<tables, hist>>

DeleteReportProgress(p) ==
  /\ proc[p].pc = "dr_delete_progress"
  /\ progress' = SelectSeq(progress, LAMBDA e : e.report_id # proc[p].rid)
  /\ Goto(p, Applied(proc[p], "delete progress"), "dr_delete_report")
  /\ hist' = [hist EXCEPT !.others = @ \cup {proc[p].rid}]
  /\ UNCHANGED <<users, categories, reports, nextReportId, nextProgressId, clock>>

DeleteReportRow(p) ==
  /\ proc[p].pc = "dr_delete_report"
  /\ reports' = [i \in DOMAIN reports \ {proc[p].rid} |-> reports[i]]
  /\ Finish(p, Applied(proc[p], "delete report"), "ok", "true")
  /\ UNCHANGED <<users, categories, progress, nextReportId, nextProgressId, clock, hist>>

\* ---------------------------------------------------- updateReportStatus
\* Called with (reportId r, status s, notes n, adminId a); first statement:
\* the lookup of the report.
UpdateStatusCall(p, r, s, n, a) ==
  /\ Free(p)
  /\ LET call == [Idle EXCEPT !.op = "updateReportStatus", !.rid = r, !.st = s,
                              !.notes = n, !.uid = a] IN
       IF r \in DOMAIN reports
         THEN Goto(p, call, "us_admin")
         ELSE Finish(p, call, "Report not found", "none")
  /\ UNCHANGED <<tables, hist>>

UpdateStatusAdmin(p) ==
  /\ proc[p].pc = "us_admin"
  /\ IF ActiveAdmin(proc[p].uid)
       THEN Goto(p, proc[p], "us_update")
       ELSE Finish(p, proc[p], "Admin not found or inactive", "none")
  /\ UNCHANGED <<tables, hist>>

\* A status update that leaves a 'selesai' report as it is.
StatusRowKeepingDone(row, st) ==
  IF row.status = "selesai" THEN row
  ELSE [row EXCEPT !.status = st, !.updated_at = @ + 1]

\* update reports set status = st, updated_at = new Date() where id = r
StatusRow(row, st) == [row EXCEPT !.status = st, !.updated_at = @ + 1]

UpdateStatusWrite(p) ==
  /\ proc[p].pc = "us_update"
  /\ IF proc[p].rid \in DOMAIN reports
       THEN /\ clock < MaxClock
            /\ reports' = [reports EXCEPT ![proc[p].rid] = StatusRow(@, proc[p].st)]
            /\ clock' = clock + 1
            /\ Goto(p, [Applied(proc[p], "update report") EXCEPT !.ret = proc[p].st],
                    "us_insert")
       ELSE /\ UNCHANGED <<reports, clock>>
            /\ Goto(p, [proc[p] EXCEPT !.ret = "undefined"], "us_insert")
  /\ UNCHANGED <<users, categories, progress, nextReportId, nextProgressId, hist>>

\* The progress row with the acting admin left out.
StatusEntryNoAdmin(call) == [report_id |-> call.rid, admin_id |-> NoId,
                             status |-> call.st, notes |-> call.notes]

\* The progress row updateReportStatus appends.
StatusEntry(call) == [report_id |-> call.rid, admin_id |-> call.uid,
                      status |-> call.st, notes |-> call.notes]

UpdateStatusProgressEntry(p) ==
  /\ proc[p].pc = "us_insert"
  /\ LET e == StatusEntry(proc[p]) IN
       InsertProgress(e.report_id, e.admin_id, e.status, e.notes)
  /\ Finish(p, Applied(proc[p], "insert progress"), "ok", proc[p].ret)
  /\ hist' = [hist EXCEPT !.nstatus[proc[p].rid] = @ + 1]
  /\ UNCHANGED <<users, categories, reports, nextReportId>>

\* ------------------------------------------------------- addProgressNote
\* Called with (reportId r, notes n, adminId a); first statement: the read
\* of the report's status.
AddNoteCall(p, r, n, a) ==
  /\ Free(p)
  /\ LET call == [Idle EXCEPT !.op = "addProgressNote", !.rid = r, !.notes = n,
                              !.uid = a] IN
       IF r \in DOMAIN reports
         THEN Goto(p, [call EXCEPT !.st = reports[r].status], "an_insert")
         ELSE Finish(p, call, "Report not found", "none")
  /\ UNCHANGED <<tables, hist>>

\* An addProgressNote whose insert also sets the report's updated_at.
AddNoteTouchingReport(p) ==
  /\ proc[p].pc = "an_insert"
  /\ InsertProgress(proc[p].rid, proc[p].uid, proc[p].st, proc[p].notes)
  /\ Finish(p, Applied(proc[p], "insert progress"), "ok", "entry")
  /\ hist' = [hist EXCEPT !.others = @ \cup {proc[p].rid}]
  /\ reports' = [r \in DOMAIN reports |->
                   IF r = proc[p].rid THEN [reports[r] EXCEPT !.updated_at = @ + 1]
                   ELSE reports[r]]
  /\ UNCHANGED <<users, categories, nextReportId>>

AddNoteProgressEntry(p) ==
  /\ proc[p].pc = "an_insert"
  /\ InsertProgress(proc[p].rid, proc[p].uid, proc[p].st, proc[p].notes)
  /\ Finish(p, Applied(proc[p], "insert progress"), "ok", "entry")
  /\ hist' = [hist EXCEPT !.others = @ \cup {proc[p].rid}]
  /\ UNCHANGED <<users, categories, reports, nextReportId>>

\* -------------------------------------------------- createReportProgress
\* One statement: the insert, whatever report_id and admin_id are (the
\* columns carry no foreign key).
CreateReportProgress(p, r, a, s, n) ==
  /\ Free(p)
  /\ InsertProgress(r, a, s, n)
  /\ Finish(p, Applied([Idle EXCEPT !.op = "createReportProgress", !.rid = r, !.uid = a,
                                     !.st = s, !.notes = n],
                       "insert progress"), "ok", "entry")
  /\ hist' = [hist EXCEPT !.others = @ \cup {r}]
  /\ UNCHANGED <<users, categories, reports, nextReportId>>

\* ------------------------------------------------------- failed statement
\* A write statement rejects (the store or its connection fails): the
\* handler's catch block logs and rethrows, and nothing is rolled back.
WriteLabels == {"cr_insert_report", "cr_insert_progress", "ur_update",
                "dr_delete_progress", "dr_delete_report", "us_update", "us_insert",
                "an_insert"}

StatementFails(p) ==
  /\ proc[p].pc \in WriteLabels
  /\ Finish(p, proc[p], "statement failed", "none")
  /\ UNCHANGED <<tables, hist>>

\* ------------------------------------------------------------------ Init
Init ==
  /\ users = (1 :> [role |-> "pelapor", is_active |-> TRUE]) @@
             (2 :> [role |-> "admin", is_active |-> TRUE]) @@
             (3 :> [role |-> "admin", is_active |-> FALSE])
  /\ categories = (1 :> [is_active |-> TRUE]) @@ (2 :> [is_active |-> TRUE]) @@
                  (3 :> [is_active |-> FALSE])
  /\ reports = <<>>
  /\ progress = <<>>
  /\ nextReportId = 1
  /\ nextProgressId = 1
  /\ clock = 0
  /\ proc = [p \in Slots |-> Idle]
  /\ last = NoResponse
  /\ hist = [created |-> {}, others |-> {}, nstatus |-> [r \in ReportArgs |-> 0]]

\* The inputs the sessions send.
CreateArgs == {<<1, 1>>, <<2, 1>>, <<3, 1>>, <<4, 1>>, <<1, 3>>, <<1, 4>>}
ActingUsers == {1, 2}
UpdateCategoryArgs == {Omitted, 2, 3}
StatusArgs == {<<s, 2>> : s \in Statuses} \cup {<<"proses", a>> : a \in {1, 3, 4}}
LedgerAdminArgs == {1}

PelaporNext ==
  LET p == "pelapor" IN
    \/ \E a \in CreateArgs : CreateReportCall(p, a[1], a[2])
    \/ CreateReportReporter(p)
    \/ CreateReportInsert(p)
    \/ CreateReportProgressEntry(p)
    \/ \E r \in ReportIds, u \in ActingUsers, c \in UpdateCategoryArgs :
          UpdateReportCall(p, r, u, c)
    \/ UpdateReportCategory(p)
    \/ UpdateReportWrite(p)
    \/ \E r \in ReportIds, u \in ActingUsers : DeleteReportCall(p, r, u)
    \/ DeleteReportProgress(p)
    \/ DeleteReportRow(p)

AdminNext ==
  LET p == "admin" IN
    \/ \E r \in ReportIds, a \in StatusArgs : UpdateStatusCall(p, r, a[1], AdminNote, a[2])
    \/ UpdateStatusAdmin(p)
    \/ UpdateStatusWrite(p)
    \/ UpdateStatusProgressEntry(p)
    \/ \E r \in ReportIds : AddNoteCall(p, r, AdminNote, 2)
    \/ AddNoteProgressEntry(p)
    \/ \E r \in ReportArgs, a \in LedgerAdminArgs : CreateReportProgress(p, r, a, "proses", NoText)

Next ==
  \/ PelaporNext
  \/ AdminNext
  \/ \E p \in Slots : StatementFails(p)

Spec == Init /\ [][Next]_vars

\* ------------------------------------------------------------ SpecLedger
\* The store right after createReport returned report 1 (category 1,
\* reporter 1); `clock` counts the rows written from here on.
InitLedger ==
  /\ users = (1 :> [role |-> "pelapor", is_active |-> TRUE]) @@
             (2 :> [role |-> "admin", is_active |-> TRUE]) @@
             (3 :> [role |-> "admin", is_active |-> FALSE])
  /\ categories = (1 :> [is_active |-> TRUE]) @@ (2 :> [is_active |-> TRUE]) @@
                  (3 :> [is_active |-> FALSE])
  /\ reports = (1 :> ReportRow(1, 1))
  /\ progress = <<ProgressRow(1, 1, NoId, "baru", CreationNote)>>
  /\ nextReportId = 2
  /\ nextProgressId = 2
  /\ clock = 0
  /\ proc = [p \in Slots |-> Idle]
  /\ last = NoResponse
  /\ hist = [created |-> {1}, others |-> {}, nstatus |-> [r \in ReportArgs |-> 0]]

\* One admin session changes statuses, the other adds notes.
LedgerStatusNext ==
  LET p == "admin" IN
    \/ \E r \in ReportArgs, a \in StatusArgs : UpdateStatusCall(p, r, a[1], AdminNote, a[2])
    \/ UpdateStatusAdmin(p)
    \/ UpdateStatusWrite(p)
    \/ UpdateStatusProgressEntry(p)

LedgerNotesNext ==
  LET p == "admin2" IN
    \/ \E r \in ReportArgs : AddNoteCall(p, r, AdminNote, 2)
    \/ AddNoteProgressEntry(p)

NextLedger ==
  \/ LedgerStatusNext
  \/ LedgerNotesNext
  \/ \E p \in Slots : StatementFails(p)

SpecLedger == InitLedger /\ [][NextLedger]_vars

\* -------------------------------------------------------------- SpecEdit
\* updateReport with every column a reporter may edit.  A text field the
\* input leaves out is NoInput, a category_id it leaves out is Omitted; the
\* router's schema also lets a status field through, which the handler never
\* reads.
NoInput == "undefined"
EditInputs ==
  [npsn : {NoInput, "22222222"},
   school_name : {NoInput, "SD Dua"},
   category_id : {Omitted, 0, 2, 3},
   issue_description : {NoInput, "keluhan kedua"},
   nisn : {NoInput, NoText, "2222222222"},
   status : {NoInput, "selesai"}]

\* A reports row with all its columns, as createReport inserted it.
FullReportRow(nisn, status) ==
  [npsn |-> "11111111", school_name |-> "SD Satu", category_id |-> 1,
   issue_description |-> "keluhan pertama", nisn |-> nisn, status |-> status,
   reporter_id |-> 1, updated_at |-> 0]

\* if (input.x) on a string: neither undefined nor ''.
Truthy(x) == x \notin {NoInput, ""}

\* if (input.category_id): neither undefined nor 0.
TruthyId(c) == c \notin {Omitted, 0}

\* The update with nisn guarded by truthiness like the other fields.
ApplyUpdateTruthyNisn(row, input) ==
  [row EXCEPT
     !.npsn = IF Truthy(input.npsn) THEN input.npsn ELSE @,
     !.school_name = IF Truthy(input.school_name) THEN input.school_name ELSE @,
     !.category_id = IF TruthyId(input.category_id) THEN input.category_id ELSE @,
     !.issue_description =
        IF Truthy(input.issue_description) THEN input.issue_description ELSE @,
     !.nisn = IF input.nisn \notin {NoInput, NoText} THEN input.nisn ELSE @,
     !.updated_at = @ + 1]

\* updateValues as the handler builds it, set on the row.
ApplyUpdate(row, input) ==
  [row EXCEPT
     !.npsn = IF Truthy(input.npsn) THEN input.npsn ELSE @,
     !.school_name = IF Truthy(input.school_name) THEN input.school_name ELSE @,
     !.category_id = IF TruthyId(input.category_id) THEN input.category_id ELSE @,
     !.issue_description =
        IF Truthy(input.issue_description) THEN input.issue_description ELSE @,
     !.nisn = IF input.nisn # NoInput THEN input.nisn ELSE @,
     !.updated_at = @ + 1]

EditReportCall(p, r, u, input) ==
  /\ Free(p)
  /\ LET call == [op |-> "updateReport", pc |-> "idle", rid |-> r, uid |-> u,
                  cid |-> input.category_id, st |-> "baru", notes |-> NoText,
                  ret |-> "none", applied |-> {}, input |-> input] IN
       IF ~OwnedReport(r, u)
         THEN Finish(p, call, "Report not found or access denied", "none")
       ELSE IF ~Editable(reports[r].status)
         THEN Finish(p, call, "Can only update reports with status \"baru\"", "none")
       ELSE IF TruthyId(input.category_id)
         THEN Goto(p, call, "er_category")
       ELSE Goto(p, call, "er_update")
  /\ UNCHANGED <<tables, hist>>

EditReportCategory(p) ==
  /\ proc[p].pc = "er_category"
  /\ IF ActiveCategory(proc[p].cid)
       THEN Goto(p, proc[p], "er_update")
       ELSE Finish(p, proc[p], "Category not found or inactive", "none")
  /\ UNCHANGED <<tables, hist>>

EditReportWrite(p) ==
  /\ proc[p].pc = "er_update"
  /\ proc[p].rid \in DOMAIN reports
  /\ clock < MaxClock
  /\ reports' = [reports EXCEPT ![proc[p].rid] = ApplyUpdate(@, proc[p].input)]
  /\ clock' = clock + 1
  /\ Finish(p, Applied(proc[p], "update report"), "ok", "row")
  /\ UNCHANGED <<users, categories, progress, nextReportId, nextProgressId, hist>>

\* Report 1 as createReport left it (with or without a nisn), or as an admin
\* has moved it on since.
InitEdit ==
  /\ users = (1 :> [role |-> "pelapor", is_active |-> TRUE]) @@
             (2 :> [role |-> "admin", is_active |-> TRUE]) @@
             (3 :> [role |-> "admin", is_active |-> FALSE])
  /\ categories = (1 :> [is_active |-> TRUE]) @@ (2 :> [is_active |-> TRUE]) @@
                  (3 :> [is_active |-> FALSE])
  /\ \E n \in {NoText, "1111111111"}, s \in Statuses :
       /\ reports = (1 :> FullReportRow(n, s))
       /\ progress = IF s = "baru"
                       THEN <<ProgressRow(1, 1, NoId, "baru", CreationNote)>>
                       ELSE <<ProgressRow(1, 1, NoId, "baru", CreationNote),
                              ProgressRow(2, 1, 2, s, AdminNote)>>
       /\ nextProgressId = IF s = "baru" THEN 2 ELSE 3
  /\ nextReportId = 2
  /\ clock = 0
  /\ proc = [p \in Slots |-> Idle]
  /\ last = NoResponse
  /\ hist = [created |-> {1}, others |-> {}, nstatus |-> [r \in ReportArgs |-> 0]]

NextEdit ==
  LET p == "pelapor" IN
    \/ \E u \in ActingUsers, input \in EditInputs : EditReportCall(p, 1, u, input)
    \/ EditReportCategory(p)
    \/ EditReportWrite(p)

SpecEdit == InitEdit /\ [][NextEdit]_vars

\* ---------------------------------------------------------- SpecTimeline
\* The two timeline queries.  Here a report_progress row carries its
\* created_at, the value of now() when it was inserted: `clock` is the
\* database time in units of the column's resolution, and rows inserted
\* before the clock moves on share a created_at.  ORDER BY created_at leaves
\* the order of such rows to the database, so a query may return any order
\* that is sorted.  `hist` keeps the last answer of getReportProgress for as
\* long as the table has not changed.
TimedRow(id, report_id, admin_id, status, notes, created_at) ==
  [id |-> id, report_id |-> report_id, admin_id |-> admin_id,
   status |-> status, notes |-> notes, created_at |-> created_at]

NoTimeline == [rid |-> NoId, ret |-> <<>>]

\* The orders in which a query may return the rows of `rows`.
Arrangements(rows) ==
  LET n == Len(rows)
      bij == {f \in [1..n -> 1..n] : \A i, j \in 1..n : f[i] = f[j] => i = j}
  IN {[i \in 1..n |-> rows[f[i]]] : f \in bij}

\* ORDER BY created_at ascending, said of a descending query.
OldestFirst(s) ==
  \A i, j \in 1..Len(s) : i < j => s[i].created_at <= s[j].created_at

\* orderBy(desc(reportProgressTable.created_at))
Descending(s) ==
  \A i, j \in 1..Len(s) : i < j => s[i].created_at >= s[j].created_at

\* orderBy(asc(reportProgressTable.created_at))
Ascending(s) ==
  \A i, j \in 1..Len(s) : i < j => s[i].created_at <= s[j].created_at

\* createReportProgress, its row stamped with now().
CreateReportProgressAt(r, a, s, n) ==
  /\ Len(progress) < MaxRows
  /\ progress' = Append(progress, TimedRow(nextProgressId, r, a, s, n, clock))
  /\ nextProgressId' = nextProgressId + 1
  /\ last' = [NoResponse EXCEPT !.op = "createReportProgress", !.rid = r, !.uid = a,
                                !.st = s, !.res = "ok", !.ret = "entry",
                                !.applied = {"insert progress"}]
  /\ hist' = NoTimeline
  /\ UNCHANGED <<users, categories, reports, nextReportId, clock, proc>>

\* now() moves on.
TimePasses ==
  /\ clock < MaxClock
  /\ clock' = clock + 1
  /\ last' = NoResponse
  /\ UNCHANGED <<users, categories, reports, progress, nextReportId, nextProgressId,
                 proc, hist>>

\* select from report_progress where report_id = r order by created_at desc
GetReportProgress(r) ==
  /\ \E result \in {s \in Arrangements(EntriesOf(r)) : Descending(s)} :
       /\ last' = [NoResponse EXCEPT !.op = "getReportProgress", !.rid = r,
                                     !.res = "ok", !.ret = result]
       /\ hist' = [rid |-> r, ret |-> result]
  /\ UNCHANGED <<tables, proc>>

\* The report's row joined with its category and reporter, then its entries
\* order by created_at asc; null when the id matches no report.
GetReportById(r) ==
  /\ IF r \in DOMAIN reports
       THEN \E result \in {s \in Arrangements(EntriesOf(r)) : Ascending(s)} :
              last' = [NoResponse EXCEPT !.op = "getReportById", !.rid = r,
                                         !.res = "ok", !.ret = result]
       ELSE last' = [NoResponse EXCEPT !.op = "getReportById", !.rid = r,
                                       !.res = "ok", !.ret = "null"]
  /\ UNCHANGED <<tables, proc, hist>>

\* Report 1 right after createReport returned it at time 0.
InitTimeline ==
  /\ users = (1 :> [role |-> "pelapor", is_active |-> TRUE]) @@
             (2 :> [role |-> "admin", is_active |-> TRUE]) @@
             (3 :> [role |-> "admin", is_active |-> FALSE])
  /\ categories = (1 :> [is_active |-> TRUE]) @@ (2 :> [is_active |-> TRUE]) @@
                  (3 :> [is_active |-> FALSE])
  /\ reports = (1 :> ReportRow(1, 1))
  /\ progress = <<TimedRow(1, 1, NoId, "baru", CreationNote, 0)>>
  /\ nextReportId = 2
  /\ nextProgressId = 2
  /\ clock = 0
  /\ proc = [p \in Slots |-> Idle]
  /\ last = NoResponse
  /\ hist = NoTimeline

NextTimeline ==
  \/ \E r \in ReportArgs, s \in {"proses", "selesai"} :
        CreateReportProgressAt(r, 2, s, AdminNote)
  \/ TimePasses
  \/ \E r \in ReportArgs : GetReportProgress(r)
  \/ \E r \in ReportArgs : GetReportById(r)

SpecTimeline == InitTimeline /\ [][NextTimeline]_vars

\* ---------------------------------------------------------- SpecCategory
\* The handlers that deactivate a category, next to a reporter's session.
\* deleteCategory(c): first statement, the count of the reports that
\* reference c.
DeleteCategoryCall(p, c) ==
  /\ Free(p)
  /\ LET call == [Idle EXCEPT !.op = "deleteCategory", !.cid = c] IN
       IF \E r \in DOMAIN reports : reports[r].category_id = c
         THEN Finish(p, call, "Cannot delete category that is being used by reports", "none")
         ELSE Goto(p, call, "dc_update")
  /\ UNCHANGED <<tables, hist>>

\* update categories set is_active = false where id = c; the handler returns
\* whether a row matched.
DeleteCategoryWrite(p) ==
  /\ proc[p].pc = "dc_update"
  /\ IF proc[p].cid \in DOMAIN categories
       THEN /\ categories' = [categories EXCEPT ![proc[p].cid].is_active = FALSE]
            /\ Finish(p, Applied(proc[p], "update category"), "ok", "true")
       ELSE /\ UNCHANGED categories
            /\ Finish(p, proc[p], "ok", "false")
  /\ UNCHANGED <<users, reports, progress, nextReportId, nextProgressId, clock, hist>>

\* updateCategory({id: c, is_active: active}): one update statement.
UpdateCategory(p, c, active) ==
  /\ Free(p)
  /\ LET call == [Idle EXCEPT !.op = "updateCategory", !.cid = c] IN
       IF c \in DOMAIN categories
         THEN /\ categories' = [categories EXCEPT ![c].is_active = active]
              /\ Finish(p, Applied(call, "update category"), "ok", "category")
         ELSE /\ UNCHANGED categories
              /\ Finish(p, call, "Category not found", "none")
  /\ UNCHANGED <<users, reports, progress, nextReportId, nextProgressId, clock, hist>>

CategoryArgs == {1, 2, 4}

ReporterNext ==
  LET p == "pelapor" IN
    \/ \E c \in {1, 2} : CreateReportCall(p, c, 1)
    \/ CreateReportReporter(p)
    \/ CreateReportInsert(p)
    \/ CreateReportProgressEntry(p)
    \/ \E r \in ReportIds, c \in {Omitted, 2} : UpdateReportCall(p, r, 1, c)
    \/ UpdateReportCategory(p)
    \/ UpdateReportWrite(p)

CategoryAdminNext ==
  LET p == "admin" IN
    \/ \E c \in CategoryArgs : DeleteCategoryCall(p, c)
    \/ DeleteCategoryWrite(p)
    \/ \E c \in CategoryArgs, active \in BOOLEAN : UpdateCategory(p, c, active)

NextCategory ==
  \/ ReporterNext
  \/ CategoryAdminNext

SpecCategory == Init /\ [][NextCategory]_vars

\* --------------------------------------------------------- SpecDirectory
\* The handlers that deactivate an account, next to the sessions of
\* SpecCategory.  deleteUser(u): update users set is_active = false where
\* id = u; the handler returns whether a row matched.
DeleteUser(p, u) ==
  /\ Free(p)
  /\ LET call == [Idle EXCEPT !.op = "deleteUser", !.uid = u] IN
       IF u \in DOMAIN users
         THEN /\ users' = [users EXCEPT ![u].is_active = FALSE]
              /\ Finish(p, Applied(call, "update user"), "ok", "true")
         ELSE /\ UNCHANGED users
              /\ Finish(p, call, "ok", "false")
  /\ UNCHANGED <<categories, reports, progress, nextReportId, nextProgressId, clock, hist>>

\* updateUser({id: u, is_active: active}): one update statement.
UpdateUserIsActive(p, u, active) ==
  /\ Free(p)
  /\ LET call == [Idle EXCEPT !.op = "updateUser", !.uid = u] IN
       IF u \in DOMAIN users
         THEN /\ users' = [users EXCEPT ![u].is_active = active]
              /\ Finish(p, Applied(call, "update user"), "ok", "user")
         ELSE /\ UNCHANGED users
              /\ Finish(p, call, "User not found", "none")
  /\ UNCHANGED <<categories, reports, progress, nextReportId, nextProgressId, clock, hist>>

UserArgs == {1, 4}

UserAdminNext ==
  LET p == "admin2" IN
    \/ \E u \in UserArgs : DeleteUser(p, u)
    \/ \E u \in UserArgs, active \in BOOLEAN : UpdateUserIsActive(p, u, active)

NextDirectory ==
  \/ NextCategory
  \/ UserAdminNext

SpecDirectory == Init /\ [][NextDirectory]_vars

\* ------------------------------------------------------------- SpecQuery
\* The list queries over a store of reports that does not change: getReports,
\* getReportsByUser and exportReportsToCSV.  Here a reports row carries the
\* columns the filters read.  Texts are sequences of characters; a text
\* filter that is left out is the empty text, which `if (filters.x)` treats
\* like undefined.  A date string names a day d; an instant is a number with
\* two instants to the day, 2 * d (midnight) and 2 * d + 1 (the rest of the
\* day).  Rows with equal created_at come back in an order the database
\* chooses anew for every statement.  `hist` keeps the pages getReports
\* answered for one choice of filters and limit, for as long as that choice
\* is asked again.
NoSearch == <<>>

\* new Date(filters.date_from), new Date(filters.date_to)
NewDate(d) == 2 * d

\* toDate.setHours(23, 59, 59, 999)
EndOfDay(t) == t + 1

Lower(ch) ==
  CASE ch = "M" -> "m" [] ch = "I" -> "i" [] ch = "S" -> "s" [] ch = "D" -> "d"
    [] OTHER -> ch

LowerText(t) == [i \in 1..Len(t) |-> Lower(t[i])]

Contains(t, s) ==
  \E i \in 0..(Len(t) - Len(s)) : SubSeq(t, i + 1, i + Len(s)) = s

\* ilike(column, `%${filters.search}%`)
ILike(column, search) == Contains(LowerText(column), LowerText(search))

\* A report of reporter u created at instant t; the reports of reporter 1
\* are about school "MI" (npsn "12"), those of reporter 2 about school "SD"
\* (npsn "34", description "mi").
QueryRow(u, t) ==
  [id |-> NoId,
   npsn |-> IF u = 1 THEN <<"1", "2">> ELSE <<"3", "4">>,
   school_name |-> IF u = 1 THEN <<"M", "I">> ELSE <<"S", "D">>,
   category_id |-> u,
   issue_description |-> IF u = 1 THEN <<"x">> ELSE <<"m", "i">>,
   status |-> IF t = 2 THEN "baru" ELSE "proses",
   reporter_id |-> u,
   created_at |-> t]

QueryRows == {QueryRow(u, t) : u \in {1, 2}, t \in {2, 3}}

NoFilters ==
  [status |-> NoInput, category_id |-> Omitted, reporter_id |-> Omitted,
   npsn |-> NoSearch, date_from |-> Omitted, date_to |-> Omitted,
   search |-> NoSearch, page |-> 1, limit |-> 10]

\* if (filters.date_from), if (filters.date_to): a string that is neither
\* undefined nor ''.
TruthyDate(d) == d # Omitted

\* The conditions getReports collects, joined with and(...).
ListWhere(row, filters) ==
  /\ Truthy(filters.status) => row.status = filters.status
  /\ TruthyId(filters.category_id) => row.category_id = filters.category_id
  /\ TruthyId(filters.reporter_id) => row.reporter_id = filters.reporter_id
  /\ filters.npsn # NoSearch => row.npsn = filters.npsn
  /\ TruthyDate(filters.date_from) => row.created_at >= NewDate(filters.date_from)
  /\ TruthyDate(filters.date_to) => row.created_at <= NewDate(filters.date_to)
  /\ filters.search # NoSearch =>
       \/ ILike(row.school_name, filters.search)
       \/ ILike(row.npsn, filters.search)
       \/ ILike(row.issue_description, filters.search)

\* The conditions exportReportsToCSV collects.
ExportWhere(row, filters) ==
  /\ Truthy(filters.status) => row.status = filters.status
  /\ TruthyId(filters.category_id) => row.category_id = filters.category_id
  /\ TruthyId(filters.reporter_id) => row.reporter_id = filters.reporter_id
  /\ filters.npsn # NoSearch => row.npsn = filters.npsn
  /\ TruthyDate(filters.date_from) => row.created_at >= NewDate(filters.date_from)
  /\ TruthyDate(filters.date_to) =>
       row.created_at <= EndOfDay(NewDate(filters.date_to))
  /\ filters.search # NoSearch => ILike(row.school_name, filters.search)

\* innerJoin(categoriesTable, ...).innerJoin(usersTable, ...)
Joined(row) ==
  /\ row.category_id \in DOMAIN categories
  /\ row.reporter_id \in DOMAIN users

\* The ids of the reports a where clause selects.
ListMatches(filters) ==
  {r \in DOMAIN reports : Joined(reports[r]) /\ ListWhere(reports[r], filters)}

ExportMatches(filters) ==
  {r \in DOMAIN reports : Joined(reports[r]) /\ ExportWhere(reports[r], filters)}

\* orderBy(desc(reportsTable.created_at)): the orders in which the database
\* may return the reports `ids`.
NewestFirst(ids) ==
  {s \in [1..Cardinality(ids) -> ids] :
     /\ \A i, j \in 1..Cardinality(ids) : s[i] = s[j] => i = j
     /\ \A i, j \in 1..Cardinality(ids) :
          i < j => reports[s[i]].created_at >= reports[s[j]].created_at}

\* .limit(filters.limit).offset((filters.page - 1) * filters.limit)
PageOf(s, page, limit) ==
  LET offset == (page - 1) * limit
      upto == IF offset + limit < Len(s) THEN offset + limit ELSE Len(s)
  IN [i \in 1..(IF upto > offset THEN upto - offset ELSE 0) |-> reports[s[offset + i]]]

\* Math.ceil(total / filters.limit)
CeilDiv(total, limit) == (total + limit - 1) \div limit

\* What getReports(filters) may return.
GetReportsResult(filters) ==
  {[data |-> PageOf(s, filters.page, filters.limit),
    total |-> Cardinality(ListMatches(filters)),
    page |-> filters.page,
    limit |-> filters.limit,
    total_pages |-> CeilDiv(Cardinality(ListMatches(filters)), filters.limit)] :
     s \in NewestFirst(ListMatches(filters))}

NoPages == [run |-> {}, pages |-> <<>>]

QueryResponse(op, u, filters, ret) ==
  [op |-> op, uid |-> u, filters |-> filters, res |-> "ok", ret |-> ret]

GetReports(filters) ==
  /\ \E ret \in GetReportsResult(filters) :
       /\ last' = QueryResponse("getReports", NoId, filters, ret)
       /\ hist' = LET run == [filters EXCEPT !.page = 1] IN
                    [run |-> {run},
                     pages |-> IF hist.run = {run}
                                 THEN (filters.page :> ret) @@ hist.pages
                                 ELSE (filters.page :> ret)]
  /\ UNCHANGED <<tables, proc>>

\* fullFilters: the caller's filters with reporter_id: userId, page:
\* filters?.page || 1 and limit: filters?.limit || 10.
FullFilters(userId, filters) ==
  [filters EXCEPT !.reporter_id = userId,
                  !.page = IF @ \in {Omitted, 0} THEN 1 ELSE @,
                  !.limit = IF @ \in {Omitted, 0} THEN 10 ELSE @]

GetReportsByUser(userId, filters) ==
  /\ \E ret \in GetReportsResult(FullFilters(userId, filters)) :
       last' = QueryResponse("getReportsByUser", userId, filters, ret)
  /\ hist' = NoPages
  /\ UNCHANGED <<tables, proc>>

\* The rows of the CSV text, one line per report, in the order of the query.
ExportReportsToCSV(filters) ==
  /\ \E s \in NewestFirst(ExportMatches(filters)) :
       last' = QueryResponse("exportReportsToCSV", NoId, filters,
                             [i \in 1..Len(s) |-> reports[s[i]]])
  /\ hist' = NoPages
  /\ UNCHANGED <<tables, proc>>

\* Up to MaxRows reports, numbered from 1.
InitQuery ==
  /\ users = (1 :> [role |-> "pelapor", is_active |-> TRUE]) @@
             (2 :> [role |-> "pelapor", is_active |-> TRUE])
  /\ categories = (1 :> [is_active |-> TRUE]) @@ (2 :> [is_active |-> TRUE])
  /\ \E n \in 0..MaxRows : \E rows \in [1..n -> QueryRows] :
       /\ reports = [i \in 1..n |-> [rows[i] EXCEPT !.id = i]]
       /\ nextReportId = n + 1
  /\ progress = <<>>
  /\ nextProgressId = 1
  /\ clock = 0
  /\ proc = [p \in Slots |-> Idle]
  /\ last = NoResponse
  /\ hist = NoPages

\* The filters the sessions send: none, or one of them.
FilterArgs ==
  {NoFilters,
   [NoFilters EXCEPT !.status = "baru"],
   [NoFilters EXCEPT !.category_id = 2],
   [NoFilters EXCEPT !.reporter_id = 2],
   [NoFilters EXCEPT !.npsn = <<"1", "2">>],
   [NoFilters EXCEPT !.date_from = 1],
   [NoFilters EXCEPT !.date_to = 1],
   [NoFilters EXCEPT !.search = <<"m", "i">>],
   [NoFilters EXCEPT !.search = <<"1">>]}

\* The filters of a paged listing, its pages and its page sizes.
PagedFilterArgs ==
  {NoFilters,
   [NoFilters EXCEPT !.status = "proses"],
   [NoFilters EXCEPT !.search = <<"m", "i">>]}

PageArgs == {1, 2}
LimitArgs == {1, 2}
UserIdArgs == {0, 1, 2}

\* What a reporter's dashboard sends: no filters, or filters that name
\* another reporter.
UserFilterArgs ==
  {[NoFilters EXCEPT !.page = Omitted, !.limit = Omitted],
   [NoFilters EXCEPT !.reporter_id = 2, !.page = 2, !.limit = 1]}

NextQuery ==
  \/ \E f \in PagedFilterArgs, page \in PageArgs, limit \in LimitArgs :
       GetReports([f EXCEPT !.page = page, !.limit = limit])
  \/ \E u \in UserIdArgs, f \in UserFilterArgs : GetReportsByUser(u, f)

SpecQuery == InitQuery /\ [][NextQuery]_vars

\* The export next to the first page of the listing, for each filter.
NextExport ==
  \/ \E f \in FilterArgs : GetReports(f)
  \/ \E f \in FilterArgs : ExportReportsToCSV(f)

SpecExport == InitQuery /\ [][NextExport]_vars

\* ---------------------------------------------------------- SpecAccounts
\* The account store with its login and its user-management handlers.  Here
\* a users row carries the columns these handlers read and write (the
\* display name is left out).  Every handler is one statement on the users
\* table, so a call is one step.  The store starts with one account whose
\* credential was written with login's own hashPassword, the way the
\* fixtures of the login tests insert their accounts.
Usernames == {"admin", "budi"}
Emails == {"admin@tka.id", "budi@tka.id"}
Passwords == {"rahasia1", "rahasia2"}
Salts == {"c2FsdDE", "c2FsdDI"}
DuplicateKey == "duplicate key value violates unique constraint"
InvalidLogin == "Invalid username or password"
AccountDisabled == "User account is disabled"

\* hashPassword: Buffer.from(password).toString('base64')
HashPassword(password) ==
  CASE password = "rahasia1" -> "cmFoYXNpYTE="
    [] password = "rahasia2" -> "cmFoYXNpYTI="
    [] OTHER -> ""

\* A check that accepts every password.
VerifyAnyPassword(password, hash) == TRUE

\* verifyPassword: hashPassword(password) === hash
VerifyPassword(password, hash) == HashPassword(password) = hash

\* Bun.password.hash(password): an argon2id string that holds a fresh salt
\* and the digest of the password under it (written as the password itself).
BunPasswordHash(password, salt) ==
  "$argon2id$v=19$m=65536,t=2,p=1$" \o salt \o "$" \o password

AccountRow(id, username, email, password_hash, role, is_active) ==
  [id |-> id, username |-> username, email |-> email,
   password_hash |-> password_hash, role |-> role, is_active |-> is_active]

\* A users table without its unique constraints.
NoUniqueConstraint(rows) == FALSE

\* username ... unique(), email ... unique(): the statement that would leave
\* `rows` in the table fails.
UniqueViolation(rows) ==
  \E i, j \in DOMAIN rows :
    /\ i # j
    /\ \/ rows[i].username = rows[j].username
       \/ rows[i].email = rows[j].email

AccountResponse(op, u, input, res, ret) ==
  [op |-> op, uid |-> u, input |-> input, res |-> res, ret |-> ret]

\* The row as login and getCurrentUser return it: password_hash: ''.
WithoutHash(row) == [row EXCEPT !.password_hash = ""]

Login(input) ==
  /\ LET found == {u \in DOMAIN users : users[u].username = input.username} IN
       IF found = {}
         THEN last' = AccountResponse("login", NoId, input, InvalidLogin, <<>>)
         ELSE \E u \in found :
                last' =
                  IF ~users[u].is_active
                    THEN AccountResponse("login", u, input, AccountDisabled, <<>>)
                  ELSE IF ~VerifyPassword(input.password, users[u].password_hash)
                    THEN AccountResponse("login", u, input, InvalidLogin, <<>>)
                  ELSE AccountResponse("login", u, input, "ok", <<WithoutHash(users[u])>>)
  /\ UNCHANGED <<tables, proc, hist>>

GetCurrentUser(userId) ==
  /\ last' = AccountResponse("getCurrentUser", userId, userId, "ok",
               IF userId \in DOMAIN users THEN <<WithoutHash(users[userId])>> ELSE <<>>)
  /\ UNCHANGED <<tables, proc, hist>>

\* insert into users ... returning *: the handler returns the row as stored.
CreateUser(input, salt) ==
  /\ Len(users) < MaxRows
  /\ LET id == Len(users) + 1
         row == AccountRow(id, input.username, input.email,
                           BunPasswordHash(input.password, salt), input.role,
                           input.is_active)
     IN IF UniqueViolation(Append(users, row))
          THEN /\ users' = users
               /\ last' = AccountResponse("createUser", NoId, input, DuplicateKey, <<>>)
          ELSE /\ users' = Append(users, row)
               /\ last' = AccountResponse("createUser", id, input, "ok", <<row>>)
  /\ UNCHANGED <<categories, reports, progress, nextReportId, nextProgressId, clock,
                 proc, hist>>

\* select * from users where ... limit 10 offset 0, with no ORDER BY, and the
\* count of the same rows; the sessions send no search term.
GetUsers(filters) ==
  /\ LET Selected(row) ==
           /\ filters.role # NoInput => row.role = filters.role
           /\ filters.is_active # <<>> => row.is_active = filters.is_active[1]
         rows == SelectSeq(users, Selected)
     IN \E data \in Arrangements(rows) :
          last' = AccountResponse("getUsers", NoId, filters, "ok",
                    [data |-> data, total |-> Len(rows), page |-> 1, limit |-> 10,
                     total_pages |-> CeilDiv(Len(rows), 10)])
  /\ UNCHANGED <<tables, proc, hist>>

GetUserById(id) ==
  /\ last' = AccountResponse("getUserById", id, id, "ok",
               IF id \in DOMAIN users THEN <<users[id]>> ELSE <<>>)
  /\ UNCHANGED <<tables, proc, hist>>

\* update users set <the fields the input gives> where id = input.id
\* returning *.
UpdateUser(input, salt) ==
  /\ IF input.id \notin DOMAIN users
       THEN /\ users' = users
            /\ last' = AccountResponse("updateUser", input.id, input, "User not found", <<>>)
       ELSE LET row == [users[input.id] EXCEPT
                          !.username = IF input.username # NoInput
                                         THEN input.username ELSE @,
                          !.email = IF input.email # NoInput THEN input.email ELSE @,
                          !.is_active = IF input.is_active # <<>>
                                          THEN input.is_active[1] ELSE @,
                          !.password_hash = IF input.password # NoInput
                                              THEN BunPasswordHash(input.password, salt)
                                              ELSE @]
            IN IF UniqueViolation([users EXCEPT ![input.id] = row])
                 THEN /\ users' = users
                      /\ last' = AccountResponse("updateUser", input.id, input,
                                                 DuplicateKey, <<>>)
                 ELSE /\ users' = [users EXCEPT ![input.id] = row]
                      /\ last' = AccountResponse("updateUser", input.id, input, "ok",
                                                 <<row>>)
  /\ UNCHANGED <<categories, reports, progress, nextReportId, nextProgressId, clock,
                 proc, hist>>

\* update users set password_hash = ... where id = id; the handler returns
\* whether a row matched.
ResetUserPassword(id, newPassword, salt) ==
  /\ IF id \in DOMAIN users
       THEN /\ users' = [users EXCEPT
                           ![id].password_hash = BunPasswordHash(newPassword, salt)]
            /\ last' = AccountResponse("resetUserPassword", id, newPassword, "ok", "true")
       ELSE /\ users' = users
            /\ last' = AccountResponse("resetUserPassword", id, newPassword, "ok", "false")
  /\ UNCHANGED <<categories, reports, progress, nextReportId, nextProgressId, clock,
                 proc, hist>>

InitAccounts ==
  /\ users = <<AccountRow(1, "admin", "admin@tka.id", HashPassword("rahasia1"),
                          "admin", TRUE)>>
  /\ categories = (1 :> [is_active |-> TRUE])
  /\ reports = <<>>
  /\ progress = <<>>
  /\ nextReportId = 1
  /\ nextProgressId = 1
  /\ clock = 0
  /\ proc = [p \in Slots |-> Idle]
  /\ last = NoResponse
  /\ hist = NoPages

\* The inputs the sessions send.
LoginArgs == [username : Usernames \cup {"tamu"}, password : Passwords]
CreateUserArgs ==
  [username : Usernames, email : Emails, password : Passwords, role : {"pelapor"},
   is_active : {TRUE}]
AccountIds == {1, 2, 3}
NoUpdate ==
  [id |-> NoId, username |-> NoInput, email |-> NoInput, password |-> NoInput,
   is_active |-> <<>>]
UpdateUserArgs ==
  {[NoUpdate EXCEPT !.id = id, !.username = u] : id \in AccountIds, u \in Usernames}
    \cup {[NoUpdate EXCEPT !.id = id, !.email = e] : id \in AccountIds, e \in Emails}
    \cup {[NoUpdate EXCEPT !.id = id, !.password = "rahasia2"] : id \in AccountIds}
    \cup {[NoUpdate EXCEPT !.id = id, !.is_active = <<b>>] : id \in AccountIds, b \in BOOLEAN}
UserFilters == [role : {NoInput, "admin"}, is_active : {<<>>, <<TRUE>>}]

NextAccounts ==
  \/ \E input \in LoginArgs : Login(input)
  \/ \E id \in AccountIds : GetCurrentUser(id)
  \/ \E input \in CreateUserArgs, salt \in Salts : CreateUser(input, salt)
  \/ \E filters \in UserFilters : GetUsers(filters)
  \/ \E id \in AccountIds : GetUserById(id)
  \/ \E input \in UpdateUserArgs, salt \in Salts : UpdateUser(input, salt)
  \/ \E id \in AccountIds : DeleteUser("admin", id)
  \/ \E id \in AccountIds, salt \in Salts : ResetUserPassword(id, "rahasia1", salt)

SpecAccounts == InitAccounts /\ [][NextAccounts]_vars

\* ---------------------------------------------------------------- claims
NotFoundCreate == {"Category not found or inactive", "Reporter not found or inactive"}
NotFoundStatus == {"Report not found", "Admin not found or inactive"}

\* C1: in the state right after createReport returned, the report it
\* returned has status 'baru' and the ledger holds exactly one entry for that
\* report: status 'baru', no admin, notes 'Laporan dibuat'.
C1_CreateReportLedger ==
  (last.op = "createReport" /\ last.res = "ok") =>
    /\ last.ret = "baru"
    /\ Len(EntriesOf(last.rid)) = 1
    /\ LET e == EntriesOf(last.rid)[1] IN
         e.status = "baru" /\ e.admin_id = NoId /\ e.notes = CreationNote

\* C2: an updateReport call gets past its lookup only when the report
\* exists, belongs to the acting user and has status 'baru' in the row it
\* reads; it returns only from its update statement; and a call that throws
\* has changed no row.
C2_UpdateReportGuard ==
  [][ /\ \A p \in Slots :
           (proc[p].pc = "idle" /\ proc'[p].op = "updateReport") =>
             /\ proc'[p].rid \in DOMAIN reports
             /\ reports[proc'[p].rid].reporter_id = proc'[p].uid
             /\ reports[proc'[p].rid].status = "baru"
      /\ (last'.op = "updateReport" /\ last'.res = "ok") =>
           \E p \in Slots : proc[p].op = "updateReport" /\ proc[p].pc = "ur_update"
      /\ (last'.op = "updateReport" /\ last'.res # "ok") =>
           /\ reports' = reports
           /\ progress' = progress
           /\ last'.applied = {}
    ]_vars

\* C2 witness: the owner's updateReport was refused because the report had
\* left status 'baru'.
C2_Witness ==
  /\ last.op = "updateReport"
  /\ last.res = "Can only update reports with status \"baru\""
  /\ last.rid \in DOMAIN reports
  /\ reports[last.rid].reporter_id = last.uid
  /\ reports[last.rid].status \in {"proses", "selesai"}

\* C3: in every interleaving, a statement of updateReport or deleteReport
\* that writes to a report is applied only while that report's status is
\* 'baru'.
C3_WriteOnlyWhileBaru ==
  [][ \A p \in Slots :
        ( /\ proc[p].pc \in {"ur_update", "dr_delete_progress", "dr_delete_report"}
          /\ proc'[p].pc # proc[p].pc
          /\ last'.res # "statement failed"
          /\ proc[p].rid \in DOMAIN reports )
        => reports[proc[p].rid].status = "baru"
    ]_vars

C5_StatusUpdateAtomic ==
  (last.op = "updateReportStatus" /\ last.res # "ok") => last.applied = {}

\* C6: the report row and its initial progress entry are created together
\* or not at all: a createReport call that throws leaves no report row it
\* inserted.
C6_CreateReportAtomic ==
  (last.op = "createReport" /\ last.res # "ok") =>
    /\ "insert report" \notin last.applied
    /\ last.rid \notin DOMAIN reports

\* C7: in the state right after deleteReport returned for report r, no row
\* of reports and no row of report_progress references r.
C7_DeleteLeavesNothing ==
  (last.op = "deleteReport" /\ last.res = "ok") =>
    /\ last.rid \notin DOMAIN reports
    /\ EntriesOf(last.rid) = <<>>

\* C8: in every reachable state, every report row has at least one progress
\* entry, the creation entry (status 'baru', no admin).
C8_EveryReportHasCreationEntry ==
  \A r \in DOMAIN reports :
    \E i \in 1..Len(progress) :
      /\ progress[i].report_id = r
      /\ progress[i].status = "baru"
      /\ progress[i].admin_id = NoId

\* C9: a createReport call whose category_id names no active category, or
\* whose reporter_id names no active user, throws the not-found error of the
\* first failing lookup and inserts neither a report row nor a progress entry.
C9_CreateReportNotFound ==
  /\ [](last.op = "createReport" =>
          LET catOk == last.cid \in DOMAIN categories /\ categories[last.cid].is_active
              usrOk == last.uid \in DOMAIN users /\ users[last.uid].is_active
          IN /\ ~catOk => last.res = "Category not found or inactive"
             /\ (catOk /\ ~usrOk) => last.res = "Reporter not found or inactive"
             /\ last.res \in NotFoundCreate => last.applied = {})
  /\ [][ (last'.op = "createReport" /\ last'.res \in NotFoundCreate) =>
           /\ reports' = reports
           /\ progress' = progress
           /\ nextReportId' = nextReportId
       ]_vars

\* C9 witness: createReport was refused for a category that exists but is
\* inactive.
C9_Witness ==
  /\ last.op = "createReport"
  /\ last.res = "Category not found or inactive"
  /\ last.cid \in DOMAIN categories
  /\ ~categories[last.cid].is_active

\* C10: an updateReportStatus call gets past its report lookup only when
\* the report exists, and past its admin lookup only when the acting id is an
\* existing active admin; otherwise it throws the not-found error of that
\* lookup, and the report's status and the ledger are as before.
C10_StatusUpdateNotFound ==
  [][ /\ \A p \in Slots :
           (proc[p].pc = "idle" /\ proc'[p].op = "updateReportStatus") =>
             proc'[p].rid \in DOMAIN reports
      /\ \A p \in Slots :
           (proc[p].pc = "us_admin" /\ proc'[p].pc = "us_update") =>
             /\ proc[p].uid \in DOMAIN users
             /\ users[proc[p].uid].role = "admin"
             /\ users[proc[p].uid].is_active
      /\ (last'.op = "updateReportStatus" /\ proc' = proc) =>
           /\ last'.rid \notin DOMAIN reports
           /\ last'.res = "Report not found"
      /\ \A p \in Slots :
           (proc[p].pc = "us_admin" /\ proc'[p].pc = "idle") =>
             last'.res = "Admin not found or inactive"
      /\ (last'.op = "updateReportStatus" /\ last'.res \in NotFoundStatus) =>
           /\ reports' = reports
           /\ progress' = progress
           /\ last'.applied = {}
    ]_vars

\* C10 witness: updateReportStatus on an existing report was refused because
\* the acting id is no active admin.
C10_Witness ==
  /\ last.op = "updateReportStatus"
  /\ last.res = "Admin not found or inactive"
  /\ last.rid \in DOMAIN reports
  /\ reports[last.rid].status = "baru"

\* C11: updateReportStatus has no transition restriction and no terminal
\* state: its update statement sets the requested status whatever status the
\* row has, the same status and a reopening of 'selesai' included, and the
\* call is refused only for a missing report or an acting id that is no
\* active admin.
C11_AnyTransition ==
  [][ /\ \A p \in Slots :
           ( /\ proc[p].pc = "us_update"
             /\ proc'[p].pc = "us_insert"
             /\ proc[p].rid \in DOMAIN reports )
           => /\ reports'[proc[p].rid].status = proc[p].st
              /\ "update report" \in proc'[p].applied
      /\ \A p \in Slots :
           ( /\ proc[p].op = "updateReportStatus"
             /\ proc[p].pc = "us_admin"
             /\ proc[p].uid \in DOMAIN users
             /\ users[proc[p].uid].role = "admin"
             /\ users[proc[p].uid].is_active
             /\ proc'[p] # proc[p] )
           => proc'[p].pc = "us_update"
      /\ (last'.op = "updateReportStatus" /\ last'.res \notin {"ok", "statement failed"}) =>
           last'.res \in NotFoundStatus
    ]_vars

\* C11 witness: a report an admin had set to 'selesai' was set back to
\* 'baru' by a later updateReportStatus, which returned.
C11_Witness ==
  /\ last.op = "updateReportStatus" /\ last.res = "ok" /\ last.st = "baru"
  /\ last.rid \in DOMAIN reports
  /\ reports[last.rid].status = "baru"
  /\ \E i, j \in 1..Len(progress) :
       /\ i < j
       /\ progress[i].report_id = last.rid /\ progress[i].status = "selesai"
       /\ progress[i].admin_id = 2
       /\ progress[j].report_id = last.rid /\ progress[j].status = "baru"
       /\ progress[j].admin_id = 2

\* C12: deleteReport has updateReport's preconditions: the call gets past
\* its lookup only when the report exists, belongs to the acting user and has
\* status 'baru' in the row it reads; a foreign owner and a status other than
\* 'baru' each end the call with their error, and the refused call leaves the
\* report row and every progress entry as they were.
C12_DeleteReportGuard ==
  [][ /\ \A p \in Slots :
           (proc[p].pc = "idle" /\ proc'[p].op = "deleteReport") =>
             /\ proc'[p].rid \in DOMAIN reports
             /\ reports[proc'[p].rid].reporter_id = proc'[p].uid
             /\ reports[proc'[p].rid].status = "baru"
      /\ (last'.op = "deleteReport" /\ proc' = proc /\ last'.rid \in DOMAIN reports) =>
           /\ reports[last'.rid].reporter_id # last'.uid =>
                last'.res = "Report not found or access denied"
           /\ reports[last'.rid].reporter_id = last'.uid =>
                /\ reports[last'.rid].status # "baru"
                /\ last'.res = "Can only delete reports with status \"baru\""
      /\ (last'.op = "deleteReport" /\ proc' = proc) =>
           /\ reports' = reports
           /\ progress' = progress
           /\ last'.applied = {}
    ]_vars

\* C12 witness: the owner's deleteReport was refused because the report had
\* left status 'baru'; the row and its ledger are still there.
C12_Witness ==
  /\ last.op = "deleteReport"
  /\ last.res = "Can only delete reports with status \"baru\""
  /\ last.rid \in DOMAIN reports
  /\ reports[last.rid].reporter_id = last.uid
  /\ reports[last.rid].status \in {"proses", "selesai"}
  /\ EntriesOf(last.rid) # <<>>

\* C13: deleteReport called with a report id that matches no row returns
\* false and raises no error.
C13_DeleteMissingReturnsFalse ==
  [][ (last'.op = "deleteReport" /\ proc' = proc /\ last'.rid \notin DOMAIN reports) =>
        (last'.res = "ok" /\ last'.ret = "false")
    ]_vars

\* C13 as the handler has it: deleteReport called with a report id that
\* matches no row throws 'Report not found or access denied', the error of a
\* foreign owner, and changes no row.
C13_DeleteMissingThrows ==
  [][ (last'.op = "deleteReport" /\ proc' = proc /\ last'.rid \notin DOMAIN reports) =>
        /\ last'.res = "Report not found or access denied"
        /\ reports' = reports
        /\ progress' = progress
    ]_vars

\* C13 witness: deleteReport was called for an id that matches no row.
C13_Witness ==
  /\ last.op = "deleteReport"
  /\ last.rid \notin DOMAIN reports
  /\ last.applied = {}
  /\ last.res # "none"

\* C14: the update statement of a successful updateReport changes only the
\* fields its input carries, and updated_at: a field left out keeps its
\* value, a nisn left out is untouched while an explicit null nisn clears it,
\* and status, reporter_id and the progress ledger stay as they were even
\* when the input carries a status.
C14_UpdateFrame ==
  [][ \A p \in Slots :
        (proc[p].pc = "er_update" /\ last'.op = "updateReport" /\ last'.res = "ok") =>
          LET r == proc[p].rid
              in == proc[p].input
          IN /\ in.npsn = NoInput => reports'[r].npsn = reports[r].npsn
             /\ in.school_name = NoInput => reports'[r].school_name = reports[r].school_name
             /\ in.category_id = Omitted => reports'[r].category_id = reports[r].category_id
             /\ in.issue_description = NoInput =>
                  reports'[r].issue_description = reports[r].issue_description
             /\ in.nisn = NoInput => reports'[r].nisn = reports[r].nisn
             /\ in.nisn = NoText => reports'[r].nisn = NoText
             /\ reports'[r].npsn \in {reports[r].npsn, in.npsn}
             /\ reports'[r].school_name \in {reports[r].school_name, in.school_name}
             /\ reports'[r].category_id \in {reports[r].category_id, in.category_id}
             /\ reports'[r].issue_description \in
                  {reports[r].issue_description, in.issue_description}
             /\ reports'[r].nisn \in {reports[r].nisn, in.nisn}
             /\ reports'[r].status = reports[r].status
             /\ reports'[r].reporter_id = reports[r].reporter_id
             /\ reports'[r].updated_at # reports[r].updated_at
             /\ progress' = progress
    ]_vars

\* C14 witness: an updateReport that left npsn out and carried a new
\* school_name returned; the row has status 'baru' and no nisn.
C14_Witness ==
  /\ last.op = "updateReport" /\ last.res = "ok"
  /\ last.rid \in DOMAIN reports
  /\ reports[last.rid].nisn = NoText
  /\ reports[last.rid].npsn = "11111111"
  /\ reports[last.rid].school_name = "SD Dua"
  /\ reports[last.rid].status = "baru"
  /\ reports[last.rid].updated_at = 1

\* C15: every progress entry addProgressNote appends carries the status the
\* report has at the moment of the append, also when updateReportStatus runs
\* on the same report at the same time; on a report that does not exist the
\* call throws 'Report not found' and appends nothing.
C15_NoteCarriesCurrentStatus ==
  [][ /\ \A p \in Slots :
           ( /\ proc[p].op = "addProgressNote"
             /\ proc[p].pc = "an_insert"
             /\ last'.op = "addProgressNote" /\ last'.res = "ok"
             /\ proc[p].rid \in DOMAIN reports )
           => progress'[Len(progress')].status = reports[proc[p].rid].status
      /\ (last'.op = "addProgressNote" /\ proc' = proc) =>
           /\ last'.rid \notin DOMAIN reports
           /\ last'.res = "Report not found"
           /\ progress' = progress
    ]_vars

\* C16: addProgressNote never writes to the report: no step of the call
\* changes a reports row, and the call that returns has added exactly one
\* entry to the ledger, for its report.
C16_NoteLeavesReport ==
  [][ /\ \A p \in Slots :
           (proc[p].op = "addProgressNote" /\ proc'[p] # proc[p]) => reports' = reports
      /\ (last'.op = "addProgressNote" /\ proc' = proc) => reports' = reports
      /\ \A p \in Slots :
           (proc[p].pc = "idle" /\ proc'[p].op = "addProgressNote") => progress' = progress
      /\ (last'.op = "addProgressNote" /\ last'.res = "ok") =>
           /\ Len(progress') = Len(progress) + 1
           /\ SubSeq(progress', 1, Len(progress)) = progress
           /\ progress'[Len(progress')].report_id = last'.rid
           /\ last'.applied = {"insert progress"}
    ]_vars

\* C16 witness: addProgressNote returned for a report an admin had moved to
\* 'proses' before; the row is as that status update left it.
C16_Witness ==
  /\ last.op = "addProgressNote" /\ last.res = "ok"
  /\ last.rid \in DOMAIN reports
  /\ reports[last.rid].status = "proses"
  /\ reports[last.rid].updated_at = 1
  /\ Len(EntriesOf(last.rid)) = 3

C18_AppendGuarded ==
  [][ /\ (last'.op = "createReportProgress" /\ last'.rid \notin DOMAIN reports) =>
           (progress' = progress /\ last'.res # "ok")
      /\ Len(progress') > Len(progress) =>
           \E p \in Slots :
             /\ proc[p].op \in {"createReport", "updateReportStatus", "addProgressNote"}
             /\ proc'[p] # proc[p]
    ]_vars

\* C19: the ledger is append-only: a step leaves report_progress as it is,
\* or adds one entry after the existing ones, or is deleteReport's delete
\* statement and removes exactly the entries of the report being deleted; no
\* step modifies an entry.
C19_AppendOnly ==
  [][ \/ progress' = progress
      \/ /\ Len(progress') = Len(progress) + 1
         /\ SubSeq(progress', 1, Len(progress)) = progress
      \/ \E p \in Slots :
           /\ proc[p].op = "deleteReport"
           /\ proc[p].pc = "dr_delete_progress"
           /\ proc[p].rid \in DOMAIN reports
           /\ reports[proc[p].rid].reporter_id = proc[p].uid
           /\ progress' = SelectSeq(progress, LAMBDA e : e.report_id # proc[p].rid)
    ]_vars

\* C19 witness: deleteReport returned after removing its report's entries,
\* and an entry of another report id is still in the ledger.
C19_Witness ==
  /\ last.op = "deleteReport" /\ last.res = "ok"
  /\ "delete progress" \in last.applied
  /\ progress # <<>>
  /\ \A i \in 1..Len(progress) : progress[i].report_id # last.rid

\* C20: a category's is_active goes from true to false only in a state in
\* which no report references the category, whichever handler writes it and
\* whatever createReport or updateReport does at the same time.
C20_DeactivateOnlyUnused ==
  [][ \A c \in DOMAIN categories :
        (categories[c].is_active /\ ~categories'[c].is_active) =>
          \A r \in DOMAIN reports : reports[r].category_id # c
    ]_vars

\* C21: at the step in which createReport inserts a report row, the row's
\* category is an active category and its reporter is an active account,
\* whatever deleteCategory, updateCategory, deleteUser or updateUser did
\* between createReport's lookups and its insert.
C21_InsertReferencesActive ==
  [][ \A r \in DOMAIN reports' \ DOMAIN reports :
        /\ reports'[r].category_id \in DOMAIN categories
        /\ categories[reports'[r].category_id].is_active
        /\ reports'[r].reporter_id \in DOMAIN users
        /\ users[reports'[r].reporter_id].is_active
    ]_vars

\* C22: getReportsByUser(userId, filters) returns only reports whose
\* reporter_id is userId, whatever the filters say (a different reporter_id
\* included), and what it returns is an answer of getReports to the same
\* filters with reporter_id replaced by userId.
C22_OnlyOwnReports ==
  last.op = "getReportsByUser" =>
    /\ \A i \in 1..Len(last.ret.data) : last.ret.data[i].reporter_id = last.uid
    /\ last.ret \in GetReportsResult(
         [last.filters EXCEPT !.reporter_id = last.uid,
                              !.page = IF @ \in {Omitted, 0} THEN 1 ELSE @,
                              !.limit = IF @ \in {Omitted, 0} THEN 10 ELSE @])

\* C23: over an unchanging store, the answers of getReports to one choice of
\* filters and limit L >= 1 all carry the same total T, the number of
\* matching reports, and total_pages = ceil(T / L); and once pages
\* 1..total_pages have been answered, their data put one after the other
\* hold every matching report exactly once and nothing else, newest first.
C23_PagesPartitionResult ==
  \A run \in hist.run :
    LET pages == hist.pages
        T == Cardinality(ListMatches(run))
        slots == {<<p, i>> \in (DOMAIN pages) \X (1..run.limit) :
                    i <= Len(pages[p].data)}
    IN /\ \A p \in DOMAIN pages :
            /\ pages[p].total = T
            /\ pages[p].total_pages * run.limit >= T
            /\ (pages[p].total_pages - 1) * run.limit < T
       /\ (\A p \in 1..T : p * run.limit < T + run.limit => p \in DOMAIN pages) =>
            /\ \A r \in ListMatches(run) :
                 Cardinality({sl \in slots : pages[sl[1]].data[sl[2]].id = r}) = 1
            /\ \A sl \in slots : pages[sl[1]].data[sl[2]].id \in ListMatches(run)
            /\ \A a, b \in slots :
                 (a[1] < b[1] \/ (a[1] = b[1] /\ a[2] < b[2])) =>
                   pages[a[1]].data[a[2]].created_at >=
                     pages[b[1]].data[b[2]].created_at

\* C30: exportReportsToCSV exports, for every filter value, exactly the
\* reports getReports matches with those filters across all its pages, in
\* newest-first order.
C30_ExportMatchesList ==
  last.op = "exportReportsToCSV" =>
    /\ {last.ret[i].id : i \in 1..Len(last.ret)} =
         {r \in DOMAIN reports :
            \E page \in GetReportsResult([last.filters EXCEPT !.limit = MaxRows + 1]) :
              \E i \in 1..Len(page.data) : page.data[i].id = r}
    /\ \A i, j \in 1..Len(last.ret) :
         i < j => last.ret[i].created_at >= last.ret[j].created_at

\* C24: what login, getCurrentUser, createUser, getUsers, getUserById and
\* updateUser return never holds the stored password hash of an account.
C24_NoHashReturned ==
  (/\ last.op \in {"login", "getCurrentUser", "createUser", "getUsers",
                   "getUserById", "updateUser"}
   /\ last.res = "ok") =>
    LET rows == IF last.op = "getUsers" THEN last.ret.data ELSE last.ret IN
      \A i \in 1..Len(rows), u \in DOMAIN users :
        rows[i].password_hash # users[u].password_hash

\* C25: in every reachable state no two accounts share a username and no two
\* share an email; a createUser or updateUser whose input would give an
\* account the username or the email of another account fails and leaves the
\* account store as it was.
C25_UniqueAccounts ==
  /\ [](\A u, v \in DOMAIN users :
          u # v => /\ users[u].username # users[v].username
                   /\ users[u].email # users[v].email)
  /\ [][ /\ (/\ last'.op = "createUser"
             /\ \E u \in DOMAIN users :
                  \/ users[u].username = last'.input.username
                  \/ users[u].email = last'.input.email)
            => (last'.res # "ok" /\ users' = users)
         /\ (/\ last'.op = "updateUser"
             /\ last'.input.id \in DOMAIN users
             /\ \E u \in DOMAIN users \ {last'.input.id} :
                  \/ users[u].username = last'.input.username
                  \/ users[u].email = last'.input.email)
            => (last'.res # "ok" /\ users' = users)
         /\ (last'.op \in {"createUser", "updateUser"} /\ last'.res # "ok")
            => users' = users
       ]_vars

\* A createUser that repeats only the email of an existing account has failed.
C25_Witness ==
  /\ last.op = "createUser"
  /\ last.res = "duplicate key value violates unique constraint"
  /\ \E u \in DOMAIN users :
       /\ users[u].email = last.input.email
       /\ users[u].username # last.input.username
  /\ \A u \in DOMAIN users : users[u].username # last.input.username

\* C26: login returns an account only if an account of that username exists,
\* is active and its stored credential is the hash of the given password;
\* an unknown username, and a wrong password for an active account, throw
\* 'Invalid username or password'; a deactivated account throws 'User account
\* is disabled' whatever the password; and deleteUser leaves its account
\* deactivated, so that its logins fail until is_active is set again.
C26_LoginOutcome ==
  [][ /\ last'.op = "login" =>
           LET named == {u \in DOMAIN users : users[u].username = last'.input.username}
           IN /\ last'.res = "ok" =>
                   \E u \in named :
                     /\ users[u].is_active
                     /\ HashPassword(last'.input.password) = users[u].password_hash
                     /\ last'.ret = <<[users[u] EXCEPT !.password_hash = ""]>>
              /\ named = {} => last'.res = "Invalid username or password"
              /\ \A u \in named :
                   /\ ~users[u].is_active => last'.res = "User account is disabled"
                   /\ (/\ users[u].is_active
                       /\ HashPassword(last'.input.password) # users[u].password_hash)
                      => last'.res = "Invalid username or password"
                   /\ (/\ users[u].is_active
                       /\ HashPassword(last'.input.password) = users[u].password_hash)
                      => last'.res = "ok"
      /\ (last'.op = "deleteUser" /\ last'.uid \in DOMAIN users) =>
           ~users'[last'.uid].is_active
    ]_vars

\* A login with the right password for an account that deleteUser (or
\* updateUser) deactivated has been refused.
C26_Witness ==
  /\ last.op = "login"
  /\ last.res = "User account is disabled"
  /\ last.uid \in DOMAIN users
  /\ users[last.uid].password_hash = HashPassword(last.input.password)

\* C29: a login with the username of an active account and the password that
\* createUser, updateUser or resetUserPassword wrote its credential from
\* succeeds.
C29_WrittenCredentialLogsIn ==
  last.op = "login" =>
    \A u \in DOMAIN users :
      (/\ users[u].username = last.input.username
       /\ users[u].is_active
       /\ \E salt \in Salts :
            users[u].password_hash = BunPasswordHash(last.input.password, salt))
      => last.res = "ok"

\* C27: in every reachable state the status of a report is the status
\* snapshot of the entry most recently appended to its ledger, under every
\* interleaving of createReport, updateReportStatus, addProgressNote and
\* createReportProgress.
C27_StatusIsLatestSnapshot ==
  \A r \in DOMAIN reports :
    \A i \in 1..Len(progress) :
      (/\ progress[i].report_id = r
       /\ \A j \in (i + 1)..Len(progress) : progress[j].report_id # r)
      => reports[r].status = progress[i].status

\* C28: every entry appended with a non-null admin_id names an account that
\* exists, is active and has role admin at the step of the append, whichever
\* of updateReportStatus, addProgressNote and createReportProgress appends it.
C28_ActingAdminIsAdmin ==
  [][ \A i \in (Len(progress) + 1)..Len(progress') :
        progress'[i].admin_id # NoId =>
          /\ progress'[i].admin_id \in DOMAIN users
          /\ users[progress'[i].admin_id].is_active
          /\ users[progress'[i].admin_id].role = "admin"
    ]_vars
====
